---------------------------- MODULE Spec2Model ----------------------------
(***************************************************************************)
(* risksense_tools: the two batch scripts                                  *)
(*   python/tools/tag_import_tool/import_tags.py   (tool = "tag")          *)
(*   tools/cmdb_update_tool/update_cmdb.py         (tool = "cmdb")         *)
(* Each run resolves the client id, reads the .csv file into a list of     *)
(* dicts, handles the rows one by one and prints what happened.  The       *)
(* RiskSense API client is the environment: its answers are chosen         *)
(* nondeterministically.  calls, out and outcomes record what the run did  *)
(* (requests sent to the API client, lines printed, what became of each    *)
(* row).                                                                   *)
(***************************************************************************)
EXTENDS Integers, Sequences, FiniteSets

VARIABLES
    tool,             \* which script runs: "tag" or "cmdb"
    config,           \* the configuration; key client_id is optional
    my_clients,       \* the client list the platform returns for the API key
    pc,               \* "start", "resolved", "loop", "done", "exited"
    exit_code,        \* <<>> while running, <<status>> once the process ended
    exit_reason,      \* why the process ended ("" while running)
    client_id,        \* <<>> until resolved, then <<id>>
    csv_data_dict,    \* the rows read from the .csv file
    total_items,      \* update_cmdb.py: len(csv_data_dict)
    idx,              \* number of rows the loop has finished
    success_counter,  \* update_cmdb.py
    failure_counter,  \* update_cmdb.py
    calls,            \* requests submitted through the API client
    out,              \* lines printed
    outcomes          \* per finished row: "success" or "failure"

vars == <<tool, config, my_clients, pc, exit_code, exit_reason, client_id,
          csv_data_dict, total_items, idx, success_counter, failure_counter,
          calls, out, outcomes>>

---------------------------------------------------------------------------
(* Bounds and input alphabets                                              *)

\* Largest number of data rows in the .csv file.
MaxRecords == 2

\* csv.DictReader's restval: the value of a column a short row does not reach.
None == "<None>"

\* Strings are sequences of one-character strings, so that upper() is computed.
Str_HOSTNAME == <<"H", "O", "S", "T", "N", "A", "M", "E">>
Str_Hostname == <<"H", "o", "s", "t", "n", "a", "m", "e">>
Str_hostname == <<"h", "o", "s", "t", "n", "a", "m", "e">>
Str_IP == <<"I", "P">>

NetworkTypes == {Str_HOSTNAME, Str_Hostname, Str_hostname, Str_IP}

\* Client lists the platform may return.
ClientLists ==
    { <<>>, <<[id |-> 10], [id |-> 20], [id |-> 30]>> }

\* Client ids an operator may configure.
ConfiguredIds == {20, 99}

TagConfigs ==
    { [api_key |-> "k"] } \cup { [api_key |-> "k", client_id |-> c] : c \in ConfiguredIds }

CmdbConfigs ==
    { [api_key |-> "k", network_type |-> n] : n \in NetworkTypes }
    \cup { [api_key |-> "k", network_type |-> n, client_id |-> c] :
             n \in NetworkTypes, c \in ConfiguredIds }

\* Rows of the tag .csv file.  A header with a trailing comma gives every row
\* a column whose name is the empty string.
TagRowsPlain ==
    [ tag_type : {"CUSTOM", "BOGUS", ""}, name : {"web", ""}, desc : {"d"},
      owner : {"o"}, color : {"red", ""}, locked : {"false"} ]

TagFieldNames == {"tag_type", "name", "desc", "owner", "color", "locked"}

WithBlankColumn(row) ==
    [ k \in DOMAIN row \cup {""} |-> IF k = "" THEN "" ELSE row[k] ]

TagRowSets == { TagRowsPlain, { WithBlankColumn(r) : r \in TagRowsPlain } }

\* Rows of the CMDB .csv file: with a host column, or without one.
CmdbRowsHost ==
    [ host : {"", "h1", None}, os : {"", "linux"}, location : {"", "dc1"} ]

CmdbRowsNoHost ==
    [ os : {"", "linux"}, location : {"", "dc1"} ]

CmdbRowSets == { CmdbRowsHost, CmdbRowsNoHost }

\* All rows of one file share the header, hence the key set.
SeqsUpTo(S, n) == UNION { [1..k -> S] : k \in 0..n }

Files(rowSets) == UNION { SeqsUpTo(S, MaxRecords) : S \in rowSets }

\* What the API client answers to a request.
CreateAnswers == {"ok", "RequestFailed", "Exception"}
UpdateAnswers == {"ok", "StatusCodeError", "NoMatchFound", "Exception"}
ResultIds == {501}

---------------------------------------------------------------------------
(* Printed lines                                                           *)

Line(kind, rec, msg, num, den) ==
    [kind |-> kind, rec |-> rec, msg |-> msg, num |-> num, den |-> den]

---------------------------------------------------------------------------
Init ==
    /\ tool \in {"tag", "cmdb"}
    /\ config \in IF tool = "tag" THEN TagConfigs ELSE CmdbConfigs
    /\ my_clients \in ClientLists
    /\ pc = "start"
    /\ exit_code = <<>>
    /\ exit_reason = ""
    /\ client_id = <<>>
    /\ csv_data_dict = <<>>
    /\ total_items = 0
    /\ idx = 0
    /\ success_counter = 0
    /\ failure_counter = 0
    /\ calls = <<>>
    /\ out = <<>>
    /\ outcomes = <<>>

\* The process ends with the given status.
Exit(status, reason) ==
    /\ pc' = "exited"
    /\ exit_code' = <<status>>
    /\ exit_reason' = reason

---------------------------------------------------------------------------
(* Identity resolution                                                     *)

validate_client_id_AnyId(clients, submitted) ==
    TRUE

\* validate_client_id: is the submitted id the id of some entry of the list?
validate_client_id(clients, submitted) ==
    \E i \in 1..Len(clients) : clients[i].id = submitted

\* import_tags.py main(), lines 170-177, with get_client_id and
\* validate_client_id.  get_clients may raise RequestFailed; its answer to
\* get_client_id either carries a top-level id or it does not (KeyError).
ResolveTag ==
    /\ tool = "tag"
    /\ pc = "start"
    /\ \E answer \in {"RequestFailed", "listed", "no id"} :
         IF answer = "RequestFailed"
         THEN /\ Exit(1, "listing")
              /\ out' = out \o <<Line("fatal", 0, "Unable to retrieve client ids", 0, 0),
                                 Line("fatal", 0, "Exiting.", 0, 0)>>
              /\ UNCHANGED client_id
         ELSE IF "client_id" \notin DOMAIN config
         THEN IF answer = "listed" /\ Len(my_clients) > 0
              THEN /\ client_id' = <<my_clients[1].id>>
                   /\ pc' = "resolved"
                   /\ UNCHANGED <<exit_code, exit_reason, out>>
              ELSE /\ Exit(1, "get_client_id raised")
                   /\ UNCHANGED <<client_id, out>>
         ELSE /\ answer = "listed"
              /\ IF validate_client_id(my_clients, config.client_id)
                 THEN /\ client_id' = <<config.client_id>>
                      /\ pc' = "resolved"
                      /\ UNCHANGED <<exit_code, exit_reason, out>>
                 ELSE /\ Exit(1, "identity")
                      /\ out' = out \o <<Line("fatal", 0, "Unable to validate that you belong to client ID", config.client_id, 0),
                                         Line("fatal", 0, "Exiting.", 0, 0)>>
                      /\ UNCHANGED client_id
    /\ UNCHANGED <<tool, config, my_clients, csv_data_dict, total_items, idx,
                   success_counter, failure_counter, calls, outcomes>>

\* update_cmdb.py __init__, lines 38-51, with get_client_id and
\* validate_client_id.  my_clients[0] of an empty list raises IndexError.
ResolveCmdb ==
    /\ tool = "cmdb"
    /\ pc = "start"
    /\ IF "client_id" \notin DOMAIN config
       THEN IF Len(my_clients) > 0
            THEN /\ client_id' = <<my_clients[1].id>>
                 /\ pc' = "resolved"
                 /\ UNCHANGED <<exit_code, exit_reason, out>>
            ELSE /\ Exit(1, "get_client_id raised")
                 /\ UNCHANGED <<client_id, out>>
       ELSE IF validate_client_id(my_clients, config.client_id)
            THEN /\ client_id' = <<config.client_id>>
                 /\ pc' = "resolved"
                 /\ UNCHANGED <<exit_code, exit_reason, out>>
            ELSE /\ Exit(1, "identity")
                 /\ out' = out \o <<Line("fatal", 0, "Unable to validate that you belong to client ID", config.client_id, 0),
                                    Line("fatal", 0, "Exiting.", 0, 0)>>
                 /\ UNCHANGED client_id
    /\ UNCHANGED <<tool, config, my_clients, csv_data_dict, total_items, idx,
                   success_counter, failure_counter, calls, outcomes>>

---------------------------------------------------------------------------
(* Reading the .csv file                                                   *)

\* import_tags.py main(), lines 179-182: read_csv_file, then a blank line.
\* open() of a missing file raises and nothing catches it.
ReadCsvTag ==
    /\ tool = "tag"
    /\ pc = "resolved"
    /\ \/ /\ \E file \in Files(TagRowSets) : csv_data_dict' = file
          /\ pc' = "loop"
          /\ UNCHANGED <<exit_code, exit_reason>>
       \/ /\ Exit(1, "unreadable")
          /\ UNCHANGED csv_data_dict
    /\ UNCHANGED <<tool, config, my_clients, client_id, total_items, idx,
                   success_counter, failure_counter, calls, out, outcomes>>

\* update_cmdb.py __init__, lines 53-66: read_csv_file, total_items, and the
\* exit on an empty file.
ReadCsvCmdb ==
    /\ tool = "cmdb"
    /\ pc = "resolved"
    /\ \/ \E file \in Files(CmdbRowSets) :
            /\ csv_data_dict' = file
            /\ total_items' = Len(file)
            /\ IF Len(file) = 0
               THEN /\ Exit(1, "empty")
                    /\ out' = out \o <<Line("info", 0, "Reading csv file...", 0, 0),
                                       Line("info", 0, "items found in the .csv file.", Len(file), 0),
                                       Line("fatal", 0, "Exiting...", 0, 0)>>
               ELSE /\ pc' = "loop"
                    /\ out' = out \o <<Line("info", 0, "Reading csv file...", 0, 0),
                                       Line("info", 0, "items found in the .csv file.", Len(file), 0)>>
                    /\ UNCHANGED <<exit_code, exit_reason>>
       \/ /\ Exit(1, "unreadable")
          /\ out' = Append(out, Line("info", 0, "Reading csv file...", 0, 0))
          /\ UNCHANGED <<csv_data_dict, total_items>>
    /\ UNCHANGED <<tool, config, my_clients, client_id, idx,
                   success_counter, failure_counter, calls, outcomes>>

---------------------------------------------------------------------------
(* import_tags.py: one row                                                 *)

acceptable_types ==
    {"COMPLIANCE", "LOCATION", "CUSTOM", "REMEDIATION", "PEOPLE", "PROJECT",
     "SCANNER", "CMDB"}

\* create_tag's checks before the request: the ValueError message, or "" when
\* the row passes.  `"" in tag_info` is membership among the dict's keys.
create_tag_check(tag_info) ==
    IF "" \in DOMAIN tag_info
    THEN "Fields cannot be blank."
    ELSE IF tag_info.tag_type \notin acceptable_types
         THEN "Tag type is not valid."
         ELSE ""

\* The arguments of tags.create: the six named fields of the row.
create_args(tag_info) == [ k \in TagFieldNames |-> tag_info[k] ]

\* One pass of the loop of main(), lines 185-194.  Only RequestFailed and
\* ValueError are caught; any other exception leaves main().
ProcessTag ==
    /\ tool = "tag"
    /\ pc = "loop"
    /\ idx < Len(csv_data_dict)
    /\ LET item == csv_data_dict[idx + 1]
           attempt == Line("attempt", idx + 1, item.name, 0, 0)
           problem == create_tag_check(item)
           call == [op |-> "create", rec |-> idx + 1, client |-> client_id,
                    filter |-> <<>>, fields |-> create_args(item)]
       IN IF problem # ""
          THEN /\ out' = out \o <<attempt, Line("failure", idx + 1, problem, 0, 0)>>
               /\ outcomes' = Append(outcomes, "failure")
               /\ idx' = idx + 1
               /\ UNCHANGED <<calls, pc, exit_code, exit_reason>>
          ELSE \E answer \in CreateAnswers :
                 /\ calls' = Append(calls, call)
                 /\ IF answer = "ok"
                    THEN \E new_tag_id \in ResultIds :
                           /\ out' = out \o <<attempt, Line("success", idx + 1, item.name, new_tag_id, 0)>>
                           /\ outcomes' = Append(outcomes, "success")
                           /\ idx' = idx + 1
                           /\ UNCHANGED <<pc, exit_code, exit_reason>>
                    ELSE IF answer = "RequestFailed"
                    THEN /\ out' = out \o <<attempt, Line("failure", idx + 1, answer, 0, 0)>>
                         /\ outcomes' = Append(outcomes, "failure")
                         /\ idx' = idx + 1
                         /\ UNCHANGED <<pc, exit_code, exit_reason>>
                    ELSE /\ out' = Append(out, attempt)
                         /\ Exit(1, "row raised")
                         /\ UNCHANGED <<outcomes, idx>>
    /\ UNCHANGED <<tool, config, my_clients, client_id, csv_data_dict, total_items,
                   success_counter, failure_counter>>

\* main(), lines 196-197: the end of the run.
FinishTag ==
    /\ tool = "tag"
    /\ pc = "loop"
    /\ idx = Len(csv_data_dict)
    /\ out' = Append(out, Line("done", 0, "Done.", 0, 0))
    /\ pc' = "done"
    /\ exit_code' = <<0>>
    /\ exit_reason' = "normal"
    /\ UNCHANGED <<tool, config, my_clients, client_id, csv_data_dict, total_items,
                   idx, success_counter, failure_counter, calls, outcomes>>

---------------------------------------------------------------------------
(* update_cmdb.py: one row                                                 *)

\* str.upper() on the letters that occur in the configured values.
UpperChar(c) ==
    CASE c = "h" -> "H" [] c = "o" -> "O" [] c = "s" -> "S" [] c = "t" -> "T"
      [] c = "n" -> "N" [] c = "a" -> "A" [] c = "m" -> "M" [] c = "e" -> "E"
      [] c = "i" -> "I" [] c = "p" -> "P" [] OTHER -> c

upper(s) == [ i \in 1..Len(s) |-> UpperChar(s[i]) ]

search_filter_ExactCase(network_type, host) ==
    IF network_type = Str_HOSTNAME
    THEN << [field |-> "hostname", exclusive |-> FALSE, operator |-> "EXACT", value |-> host] >>
    ELSE << [field |-> "ipAddress", exclusive |-> FALSE, operator |-> "EXACT", value |-> host] >>

\* send_update_request, lines 219-236.
search_filter(network_type, host) ==
    IF upper(network_type) = Str_HOSTNAME
    THEN << [field |-> "hostname", exclusive |-> FALSE, operator |-> "EXACT", value |-> host] >>
    ELSE << [field |-> "ipAddress", exclusive |-> FALSE, operator |-> "EXACT", value |-> host] >>

update_dict_KeepBlanks(kwargs) ==
    [ item \in DOMAIN kwargs |-> kwargs[item] ]

\* send_update_request, lines 209-217: kwargs is the row without its host.
update_dict(kwargs) ==
    [ item \in { k \in DOMAIN kwargs : kwargs[k] # "" } |-> kwargs[item] ]

WithoutHost(row) == [ k \in DOMAIN row \ {"host"} |-> row[k] ]

host_given_NotNoneOnly(host) == host # None

\* send_update_request, line 239.
host_given(host) == host # "" /\ host # None

count_row_FailureNotCounted(succeeded, s, f) ==
    IF succeeded THEN <<s + 1, f>> ELSE <<s, f>>

\* __init__, lines 74 and 78: the counters after a row.
count_row(succeeded, s, f) ==
    IF succeeded THEN <<s + 1, f>> ELSE <<s, f + 1>>

\* One pass of the loop of __init__, lines 69-78, with send_update_request.
\* Every Exception is caught by the loop; the API client's own failure kinds
\* are printed by send_update_request before it re-raises them.
ProcessCmdb ==
    /\ tool = "cmdb"
    /\ pc = "loop"
    /\ idx < Len(csv_data_dict)
    /\ LET item == csv_data_dict[idx + 1]
           failed(lines) ==
               /\ out' = out \o lines
               /\ outcomes' = Append(outcomes, "failure")
               /\ success_counter' = count_row(FALSE, success_counter, failure_counter)[1]
               /\ failure_counter' = count_row(FALSE, success_counter, failure_counter)[2]
       IN IF "host" \notin DOMAIN item
          THEN /\ failed(<<Line("failure", idx + 1, "KeyError: 'host'", 0, 0)>>)
               /\ UNCHANGED calls
          ELSE IF ~host_given(item.host)
          THEN /\ failed(<<Line("failure", idx + 1, "There was no host provided for this row.", 0, 0)>>)
               /\ UNCHANGED calls
          ELSE \E answer \in UpdateAnswers :
                 /\ calls' = Append(calls,
                        [op |-> "update_hosts_cmdb", rec |-> idx + 1, client |-> client_id,
                         filter |-> search_filter(config.network_type, item.host),
                         fields |-> update_dict(WithoutHost(item))])
                 /\ IF answer = "ok"
                    THEN \E job_id \in ResultIds :
                           /\ out' = Append(out, Line("success", idx + 1, item.host, job_id, 0))
                           /\ outcomes' = Append(outcomes, "success")
                           /\ success_counter' = count_row(TRUE, success_counter, failure_counter)[1]
                           /\ failure_counter' = count_row(TRUE, success_counter, failure_counter)[2]
                    ELSE IF answer = "Exception"
                    THEN failed(<<Line("failure", idx + 1, answer, 0, 0)>>)
                    ELSE failed(<<Line("failure", idx + 1, answer, 0, 0),
                                  Line("failure", idx + 1, answer, 0, 0)>>)
    /\ idx' = idx + 1
    /\ UNCHANGED <<tool, config, my_clients, client_id, csv_data_dict, total_items,
                   pc, exit_code, exit_reason>>

\* __init__, lines 80-83: the end of the run.
FinishCmdb ==
    /\ tool = "cmdb"
    /\ pc = "loop"
    /\ idx = Len(csv_data_dict)
    /\ out' = out \o <<Line("done", 0, "** DONE **", 0, 0),
                       Line("summary success", 0, "items processed reported successful submission.",
                            success_counter, total_items),
                       Line("summary failure", 0, "items processed did *NOT* report successful submission.",
                            failure_counter, total_items)>>
    /\ pc' = "done"
    /\ exit_code' = <<0>>
    /\ exit_reason' = "normal"
    /\ UNCHANGED <<tool, config, my_clients, client_id, csv_data_dict, total_items,
                   idx, success_counter, failure_counter, calls, outcomes>>

---------------------------------------------------------------------------
\* KeyboardInterrupt at any point of the run.
Interrupt ==
    /\ pc \in {"start", "resolved", "loop"}
    /\ Exit(0, "interrupt")
    /\ out' = Append(out, Line("interrupt", 0, "KeyboardInterrupt detected.  Exiting...", 0, 0))
    /\ UNCHANGED <<tool, config, my_clients, client_id, csv_data_dict, total_items,
                   idx, success_counter, failure_counter, calls, outcomes>>

Next ==
    \/ ResolveTag
    \/ ResolveCmdb
    \/ ReadCsvTag
    \/ ReadCsvCmdb
    \/ ProcessTag
    \/ ProcessCmdb
    \/ FinishTag
    \/ FinishCmdb
    \/ Interrupt

Spec == Init /\ [][Next]_vars

---------------------------------------------------------------------------
(* Vocabulary of the properties                                            *)

\* The run is over and was not cut short by KeyboardInterrupt.
Ended == pc \in {"done", "exited"} /\ exit_reason # "interrupt"

\* Some field of the row holds the empty string.
HasBlank(row) == \E k \in DOMAIN row : row[k] = ""

\* The row names no host: no host column, an empty host, or a short row.
HostMissing(row) ==
    \/ "host" \notin DOMAIN row
    \/ row.host = ""
    \/ row.host = None

\* The loop got to row i: it printed a line about it.
Reached(i) == \E j \in 1..Len(out) : out[j].rec = i

\* Positions in out of the outcome lines (success or failure) of row i.
OutcomeLines(i) ==
    { j \in 1..Len(out) : out[j].rec = i /\ out[j].kind \in {"success", "failure"} }

\* Requests submitted for row i.
CallsFor(i) == { j \in 1..Len(calls) : calls[j].rec = i }

\* Rows among the finished ones that ended as `what`.
Finished(what) == { i \in 1..Len(outcomes) : outcomes[i] = what }

\* The letters of s spell "hostname" in any mix of upper and lower case.
SpellsHostname(s) ==
    /\ Len(s) = Len(Str_HOSTNAME)
    /\ \A i \in 1..Len(s) : s[i] \in {Str_HOSTNAME[i], Str_hostname[i]}

---------------------------------------------------------------------------
(* C1 *)

\* C1: in the tag tool, a row with a blank field value fails with a
\* ValueError and tags.create is never called for it.
C1_BlankFieldNeverSubmitted ==
    tool = "tag" =>
        /\ \A j \in 1..Len(calls) : ~HasBlank(csv_data_dict[calls[j].rec])
        /\ \A i \in 1..idx :
             HasBlank(csv_data_dict[i]) =>
                 \E j \in OutcomeLines(i) :
                     /\ out[j].kind = "failure"
                     /\ out[j].msg \in {"Fields cannot be blank.", "Tag type is not valid."}

---------------------------------------------------------------------------
(* C2 *)

\* C2: in both tools a failure on one row never aborts the loop: a run that
\* read its rows and was not interrupted got to every row, in input order.
C2_FailureNeverAbortsLoop ==
    /\ Ended => \A i \in 1..Len(csv_data_dict) : Reached(i)
    /\ \A j, k \in 1..Len(out) :
         (j < k /\ out[j].rec > 0 /\ out[k].rec > 0) => out[j].rec <= out[k].rec

---------------------------------------------------------------------------
(* C3 *)

C3_Tally ==
    tool = "cmdb" =>
        /\ success_counter + failure_counter = idx
        /\ (pc = "done" =>
              /\ success_counter + failure_counter = Len(csv_data_dict)
              /\ total_items = Len(csv_data_dict)
              /\ total_items >= 1)

C3_Step ==
    (tool = "cmdb" /\ idx' = idx + 1) =>
        \/ success_counter' = success_counter + 1 /\ failure_counter' = failure_counter
        \/ success_counter' = success_counter /\ failure_counter' = failure_counter + 1

\* C3: in the CMDB tool every row adds one to exactly one of the two
\* counters, so after k rows success_counter + failure_counter = k, and at
\* the end of the loop the sum is N = total_items.
C3_EachRowCountedOnce ==
    [](C3_Tally) /\ [][C3_Step]_vars

C3_Witness ==
    /\ tool = "cmdb"
    /\ pc = "done"
    /\ Len(csv_data_dict) = 2
    /\ success_counter = 1
    /\ failure_counter = 1

---------------------------------------------------------------------------
(* C4 *)

\* Every update request carries one EXACT, non-exclusive clause on one of
\* the two search keys, whose value is the row's host.
C4_ClauseShape ==
    \A j \in 1..Len(calls) :
        calls[j].op = "update_hosts_cmdb" =>
            /\ Len(calls[j].filter) = 1
            /\ calls[j].filter[1].field \in {"hostname", "ipAddress"}
            /\ calls[j].filter[1].operator = "EXACT"
            /\ calls[j].filter[1].exclusive = FALSE
            /\ calls[j].filter[1].value = csv_data_dict[calls[j].rec].host

\* C4 as stated: the filter is keyed on "hostname" only when network_type is
\* exactly "HOSTNAME"; any other value, "Hostname" included, gives
\* "ipAddress".
C4_HostnameOnlyWhenExact ==
    /\ C4_ClauseShape
    /\ \A j \in 1..Len(calls) :
         calls[j].op = "update_hosts_cmdb" =>
             (calls[j].filter[1].field = "hostname" <=> config.network_type = Str_HOSTNAME)

\* C4 as amended: the filter is keyed on "hostname" exactly when network_type
\* spells HOSTNAME in any mix of upper and lower case, and on "ipAddress"
\* for every other value.
C4_HostnameInAnyCase ==
    /\ C4_ClauseShape
    /\ \A j \in 1..Len(calls) :
         calls[j].op = "update_hosts_cmdb" =>
             (calls[j].filter[1].field = "hostname" <=> SpellsHostname(config.network_type))

C4_Witness ==
    /\ tool = "cmdb"
    /\ config.network_type = Str_Hostname
    /\ Len(calls) = 2
    /\ calls[2].filter[1].field = "hostname"
    /\ calls[2].filter[1].value = "h1"

---------------------------------------------------------------------------
(* C5 *)

\* C5: in the CMDB tool a row without a host ends as one counted failure and
\* update_hosts_cmdb is not called for it; every call of update_hosts_cmdb is
\* for a row with a non-empty host.
C5_NoHostNoRequest ==
    tool = "cmdb" =>
        /\ \A i \in 1..idx :
             HostMissing(csv_data_dict[i]) =>
                 /\ CallsFor(i) = {}
                 /\ OutcomeLines(i) # {}
                 /\ \A j \in OutcomeLines(i) : out[j].kind = "failure"
        /\ failure_counter >= Cardinality({ i \in 1..idx : HostMissing(csv_data_dict[i]) })
        /\ \A j \in 1..Len(calls) : ~HostMissing(csv_data_dict[calls[j].rec])

C5_Witness ==
    /\ tool = "cmdb"
    /\ idx = 2
    /\ "host" \in DOMAIN csv_data_dict[1]
    /\ csv_data_dict[1].host = ""
    /\ csv_data_dict[2].host = "h1"
    /\ failure_counter = 1
    /\ CallsFor(1) = {}
    /\ CallsFor(2) # {}

---------------------------------------------------------------------------
(* C6 *)

\* C6: the field mapping passed to update_hosts_cmdb holds exactly the row's
\* fields other than host whose value is not the empty string, each with the
\* row's value.
C6_SparseFields ==
    \A j \in 1..Len(calls) :
        calls[j].op = "update_hosts_cmdb" =>
            LET row == csv_data_dict[calls[j].rec]
                sent == calls[j].fields
            IN /\ "host" \notin DOMAIN sent
               /\ DOMAIN sent \subseteq DOMAIN row
               /\ \A k \in DOMAIN sent : sent[k] # "" /\ sent[k] = row[k]
               /\ \A k \in DOMAIN row \ {"host"} : row[k] # "" => k \in DOMAIN sent

C6_Witness ==
    /\ tool = "cmdb"
    /\ Len(calls) = 1
    /\ csv_data_dict[calls[1].rec].os = ""
    /\ csv_data_dict[calls[1].rec].location = "dc1"
    /\ DOMAIN calls[1].fields = {"location"}

---------------------------------------------------------------------------
(* C7 *)

\* C7: with a configured client id that is the id of an entry of the client
\* list, the run is not rejected and that id is the one every request uses;
\* with one that matches no entry, the process ends with a non-zero status
\* before the .csv file is read and no request is submitted.
C7_ConfiguredIdentity ==
    "client_id" \in DOMAIN config =>
        IF \E i \in 1..Len(my_clients) : my_clients[i].id = config.client_id
        THEN /\ exit_reason # "identity"
             /\ pc \in {"resolved", "loop", "done"} => client_id = <<config.client_id>>
             /\ \A j \in 1..Len(calls) : calls[j].client = <<config.client_id>>
        ELSE /\ pc \in {"start", "exited"}
             /\ Ended => exit_code # <<0>>
             /\ csv_data_dict = <<>>
             /\ idx = 0
             /\ calls = <<>>
             /\ \A j \in 1..Len(out) : out[j].kind \in {"fatal", "interrupt"}

C7_Witness ==
    /\ "client_id" \in DOMAIN config
    /\ config.client_id = 99
    /\ Len(my_clients) = 3
    /\ pc = "exited"
    /\ exit_reason = "identity"
    /\ exit_code = <<1>>
    /\ calls = <<>>

---------------------------------------------------------------------------
(* C8 *)

\* C8: in both tools every finished row has exactly one outcome line: a
\* success line with the returned identifier, or a failure line.
C8_OneOutcomeLinePerRow ==
    \A i \in 1..idx :
        /\ Cardinality(OutcomeLines(i)) = 1
        /\ \A j \in OutcomeLines(i) : out[j].kind = outcomes[i]
        /\ \A j \in OutcomeLines(i) : out[j].kind = "success" => out[j].num \in ResultIds

---------------------------------------------------------------------------
(* C9 *)

\* C9: in both tools a run that read its rows and got through its loop
\* without being interrupted ends with the two summary lines, whose counts
\* are the numbers of rows that succeeded and failed out of the number of
\* rows.
C9_RunEndsWithSummary ==
    (pc = "done" /\ Len(csv_data_dict) > 0) =>
        /\ Len(out) >= 2
        /\ out[Len(out) - 1].kind = "summary success"
        /\ out[Len(out) - 1].num = Cardinality(Finished("success"))
        /\ out[Len(out) - 1].den = Len(csv_data_dict)
        /\ out[Len(out)].kind = "summary failure"
        /\ out[Len(out)].num = Cardinality(Finished("failure"))
        /\ out[Len(out)].den = Len(csv_data_dict)

---------------------------------------------------------------------------
(* C10 *)

\* C10: in both tools a .csv file without data rows ends the process with a
\* non-zero status, with no request submitted and no end-of-run output;
\* status 0 comes only from a pass over at least one row or from
\* KeyboardInterrupt.
C10_EmptyInputIsFatal ==
    /\ (pc \in {"done", "exited"} /\ exit_code = <<0>>) =>
          \/ exit_reason = "interrupt"
          \/ Len(csv_data_dict) >= 1 /\ idx = Len(csv_data_dict)
    /\ (Ended /\ Len(csv_data_dict) = 0) =>
          /\ calls = <<>>
          /\ \A j \in 1..Len(out) : out[j].kind \notin {"done", "summary success", "summary failure"}

=============================================================================
